---------------------------- MODULE Spec2Model ----------------------------
(***************************************************************************)
(* A model of tnt (voice-to-text TUI): the session controller of           *)
(* src/tnt/app.py (TntApp), the two capture engines of src/tnt/audio.py    *)
(* (MicRecorder, TermuxMicRecorder) and the outcomes of the transcription  *)
(* client of src/tnt/transcriber.py.                                       *)
(*                                                                         *)
(* Threads.  The Textual main loop runs the key handler, the 100 ms tick   *)
(* and the stop+transcribe worker as cooperative tasks: each runs          *)
(* atomically between two awaits.  recorder.stop() runs in a pool thread   *)
(* (asyncio.to_thread), concurrently with the main loop, and keeps running *)
(* after asyncio.wait_for has given up on it.  The audio callback runs on  *)
(* PortAudio's thread.  A thread step is one blocking call of the source   *)
(* (stream.stop(), subprocess.run, time.sleep) together with the           *)
(* non-blocking code up to the next one; a thread that never takes its     *)
(* next step is a call that hangs.  Wall-clock time is not modelled: the   *)
(* 30 s bound of wait_for may expire at any moment at which stop() has not *)
(* returned.                                                               *)
(*                                                                         *)
(* Functions.  create_recorder, QwenTranscriber.transcribe and             *)
(* transcribe_async, MicRecorder._encode_wav and StatusPanel.push_level    *)
(* with _render_waveform are operators, each applied in a specification of *)
(* its own (SelectorSpec, TranscriberSpec, EncoderSpec, MeterSpec) to      *)
(* every input of a bounded set.  Text and bytes are sequences of          *)
(* characters; levels are integers in millionths.                          *)
(***************************************************************************)
EXTENDS Integers, Sequences, FiniteSets

\* ----------------------------------------------------------------- bounds
\* start() executions that get past the "already recording" guard.
MaxStarts == 2
\* recorder.stop() invocations (one pool thread each).
MaxStops == 2
\* chunks the audio callback buffers between two drains.
MaxChunks == 2

\* ------------------------------------------------------ program constants
\* audio.py:401  for _ in range(20)
PollLimit == 20

None == 0

VARIABLES
  \* --- TntApp (app.py:132-140) and TranscriptView
  state,                 \* "idle" | "recording" | "transcribing"
  recording_session_id,  \* TntApp._recording_session_id
  recording_timer,       \* TntApp._recording_timer is not None
  transcriber,           \* TntApp._transcriber: "None" | "ready"
  capture_backend,       \* "live" | "termux_api"
  placeholder,           \* the #transcript-placeholder widget is mounted
  workers,               \* the _stop_and_transcribe coroutines, by session id
  \* --- the recorder object (MicRecorder or TermuxMicRecorder)
  recording,             \* _recording
  start_time,            \* _start_time, as the logical time of the start()
  stream,                \* MicRecorder._stream: None or a stream id
  chunks,                \* MicRecorder._chunks
  current_level,         \* MicRecorder._current_level, in millionths
  tmp_dir,               \* TermuxMicRecorder._tmp_dir: None or a directory id
  raw_path,              \* TermuxMicRecorder._raw_path: None or its directory
  wav_path,              \* TermuxMicRecorder._wav_path: None or its directory
  \* --- the threads running recorder.stop()
  thr,                   \* by thread id: the call's position and locals
  nthr,                  \* threads started so far
  \* --- the environment
  streams,               \* every sd.InputStream created: its PortAudio state
  dirs,                  \* every mkdtemp directory: on disk? raw file? tool?
  launches,              \* runs of the recorder tool's start command
  clock,                 \* logical time: start() executions past the guard
  \* --- the owner of the engine and the stand-alone calls
  disposed,              \* the engine object has been dropped by its owner
  call,                  \* a call of a function on its own: [fn, args, ret]
  \* --- MicRecorder statement by statement
  lock,                  \* MicRecorder._lock: the thread holding it, or "free"
  lt,                    \* the threads using a MicRecorder: position, locals
  \* --- history
  ev                     \* the step just taken: [op, out]

ctlVars == <<state, recording_session_id, recording_timer, transcriber,
             placeholder, workers>>
liveVars == <<stream, chunks, current_level>>
termuxVars == <<tmp_dir, raw_path, wav_path>>
recVars == <<recording, start_time, stream, chunks, current_level,
             tmp_dir, raw_path, wav_path>>
envVars == <<streams, dirs, launches, clock>>
thrVars == <<thr, nthr>>
vars == <<state, recording_session_id, recording_timer, transcriber,
          capture_backend, placeholder, workers,
          recording, start_time, stream, chunks, current_level,
          tmp_dir, raw_path, wav_path, thr, nthr,
          streams, dirs, launches, clock, disposed, call, lock, lt, ev>>

Backends == {"live", "termux_api"}

\* Levels are in millionths: LevelUnit is the 1.0 of audio.py:240.
LevelUnit == 1000000

\* RMS values of the chunks the callback delivers: digital silence, a signal
\* below the -60 dB floor, one at -30 dB, and full scale (every sample -32768).
ChunkRms == {0, 2, 1036, 32768}

\* 20.0 * math.log10(rms / 32767.0) (audio.py:239), in millionths of a dB, on
\* the values of ChunkRms above 1.
Db(rms) ==
  CASE rms = 2 -> -84288134
    [] rms = 1036 -> -30001539
    [] rms = 32768 -> 265

Max(a, b) == IF a >= b THEN a ELSE b
Min(a, b) == IF a <= b THEN a ELSE b


\* Normalized without the max(0.0, ...) and min(1.0, ...) of audio.py:240.
NormalizedNoClamp(rms) ==
  IF rms > 1 THEN (Db(rms) + 60 * LevelUnit) \div 60 ELSE 0

\* audio.py:238-242: normalized = max(0.0, min(1.0, (db + 60.0) / 60.0)) when
\* rms > 1.0, else 0.0.
Normalized(rms) ==
  IF rms > 1
  THEN Max(0, Min(LevelUnit, (Db(rms) + 60 * LevelUnit) \div 60))
  ELSE 0

Event(op, out) == [op |-> op, out |-> out]

\* No function is being called on its own.
NoCall == [fn |-> "none", args |-> <<>>, ret |-> [kind |-> "pending"]]

\* ------------------------------------------------------------ MicRecorder

\* What sd.InputStream(...) followed by stream.start() can do (audio.py:179-186).
LiveStartOutcomes == {"ok", "ctor_raises", "start_raises"}


\* LiveStart without the guard of audio.py:168-169: a second start() resets the
\* buffer and the start time and opens another stream.
LiveStartNoGuard(out) ==
  /\ clock < MaxStarts
  /\ chunks' = <<>>
  /\ current_level' = 0
  /\ clock' = clock + 1
  /\ start_time' = clock + 1
  /\ CASE out = "ok" ->
            /\ streams' = Append(streams, "active")
            /\ stream' = Len(streams) + 1
            /\ recording' = TRUE
       [] out = "ctor_raises" ->
            /\ streams' = streams
            /\ stream' = None
            /\ recording' = FALSE
       [] out = "start_raises" ->
            /\ streams' = Append(streams, "open")
            /\ stream' = None
            /\ recording' = FALSE
  /\ UNCHANGED <<termuxVars, dirs, launches>>

\* MicRecorder.start (audio.py:166-190).
LiveStart(out) ==
  IF recording
  THEN /\ out = "ok"
       /\ UNCHANGED <<recVars, envVars>>
  ELSE /\ clock < MaxStarts
       /\ chunks' = <<>>
       /\ current_level' = 0
       /\ clock' = clock + 1
       /\ start_time' = clock + 1
       /\ CASE out = "ok" ->
                 /\ streams' = Append(streams, "active")
                 /\ stream' = Len(streams) + 1
                 /\ recording' = TRUE
            [] out = "ctor_raises" ->
                 /\ streams' = streams
                 /\ stream' = None
                 /\ recording' = FALSE
            [] out = "start_raises" ->
                 \* the stream was opened by the constructor; the handler
                 \* drops the reference without closing it
                 /\ streams' = Append(streams, "open")
                 /\ stream' = None
                 /\ recording' = FALSE
       /\ UNCHANGED <<termuxVars, dirs, launches>>

\* MicRecorder._audio_callback (audio.py:223-246), for one chunk of stream s.
AudioCallback(s, rms) ==
  /\ capture_backend = "live"
  /\ s \in 1..Len(streams)
  /\ streams[s] = "active"
  /\ Len(chunks) < MaxChunks
  /\ chunks' = Append(chunks, [sid |-> s, rms |-> rms])
  /\ current_level' = Normalized(rms)
  /\ ev' = Event("callback", "chunk")
  /\ UNCHANGED <<ctlVars, capture_backend, disposed, call, lock, lt,
                 recording, start_time, stream,
                 termuxVars, thrVars, envVars>>



\* MicRecorder.get_level (audio.py:218-221): the stored level, whatever the flag.
LiveGetLevel == current_level

\* TermuxMicRecorder.get_level (audio.py:457-459): 0.25 if recording else 0.0.
TermuxGetLevel == IF recording THEN LevelUnit \div 4 ELSE 0

\* recorder.get_level() of the engine create_recorder built.
get_level == IF capture_backend = "live" THEN LiveGetLevel ELSE TermuxGetLevel

\* ------------------------------------------------- threads running stop()

NoThread == [pc |-> "none", res |-> "none", quit_rc |-> 0,
             raw |-> None, wav |-> None, polls |-> 0]

\* The call returns (res = "bytes" or "empty") or raises (the other values).
Raised(res) == res \in {"raise_stream", "raise_convert", "raise_nowav", "raise_quit"}

Finish(t, res) == thr' = [thr EXCEPT ![t] = [NoThread EXCEPT !.pc = "done", !.res = res]]

Goto(t, pc) == thr' = [thr EXCEPT ![t].pc = pc]

\* MicRecorder.stop, audio.py:194-197: the guard and the flag.
LiveStopEnter(t) ==
  /\ capture_backend = "live"
  /\ thr[t].pc = "enter"
  /\ IF ~recording
     THEN /\ Finish(t, "empty")
          /\ recording' = recording
     ELSE /\ recording' = FALSE
          /\ Goto(t, "stream_stop")
  /\ ev' = Event("thread", "step")
  /\ UNCHANGED <<ctlVars, capture_backend, disposed, call, lock, lt,
                 start_time, liveVars, termuxVars,
                 nthr, envVars>>

\* audio.py:199-200: if self._stream is not None: self._stream.stop().
\* PortAudio may stop the stream or report an error.
LiveStopStream(t, out) ==
  /\ capture_backend = "live"
  /\ thr[t].pc = "stream_stop"
  /\ IF stream = None
     THEN /\ out = "ok"
          /\ Goto(t, "drain")
          /\ streams' = streams
     ELSE CASE out = "ok" ->
                 /\ streams' = [streams EXCEPT ![stream] = "stopped"]
                 /\ Goto(t, "stream_close")
            [] out = "raise" ->
                 /\ streams' = streams
                 /\ Finish(t, "raise_stream")
  /\ ev' = Event("thread", "step")
  /\ UNCHANGED <<ctlVars, capture_backend, disposed, call, lock, lt,
                 recording, start_time, liveVars,
                 termuxVars, nthr, dirs, launches, clock>>

\* audio.py:201-202: self._stream.close(); self._stream = None.  The attribute
\* is read again: it is None (an AttributeError) when another call has cleared it.
LiveStopClose(t, out) ==
  /\ capture_backend = "live"
  /\ thr[t].pc = "stream_close"
  /\ IF stream = None
     THEN /\ out = "raise"
          /\ Finish(t, "raise_stream")
          /\ UNCHANGED <<stream, streams>>
     ELSE CASE out = "ok" ->
                 /\ streams' = [streams EXCEPT ![stream] = "closed"]
                 /\ stream' = None
                 /\ Goto(t, "drain")
            [] out = "raise" ->
                 /\ Finish(t, "raise_stream")
                 /\ UNCHANGED <<stream, streams>>
  /\ ev' = Event("thread", "step")
  /\ UNCHANGED <<ctlVars, capture_backend, disposed, call, lock, lt,
                 recording, start_time, chunks,
                 current_level, termuxVars, nthr, dirs, launches, clock>>

\* audio.py:204-210: under the lock, drain the buffer; encode outside it.
LiveStopDrain(t) ==
  /\ capture_backend = "live"
  /\ thr[t].pc = "drain"
  /\ IF chunks = <<>>
     THEN /\ Finish(t, "empty")
          /\ chunks' = chunks
     ELSE /\ chunks' = <<>>
          /\ Finish(t, "bytes")
  /\ ev' = Event("thread", "step")
  /\ UNCHANGED <<ctlVars, capture_backend, disposed, call, lock, lt,
                 recording, start_time, stream,
                 current_level, termuxVars, nthr, envVars>>

\* ------------------------------------- MicRecorder, statement by statement
\* The same engine with its lock (threading.Lock, audio.py:158): every
\* statement that the lock brackets is a step of its own.  Three threads use
\* the engine: "caller" calls start() and stop() one after the other, "reader"
\* calls get_level(), "audio" is PortAudio's thread running _audio_callback.

MicThreads == {"caller", "reader", "audio"}

NoChunk == [sid |-> 0, rms |-> 0, n |-> 0, late |-> FALSE]

\* The threads before their first call.  appended, payloads, stops and
\* delivered are history: the chunks appended since the last reset of start(),
\* the value of every stop() that returned, the stop() calls made and the
\* chunks PortAudio has handed to the callback.
LtInit ==
  [caller |-> [pc |-> "idle", audio_data |-> <<>>],
   reader |-> [pc |-> "idle", level |-> 0],
   audio |-> [pc |-> "idle", chunk |-> NoChunk, normalized |-> 0],
   appended |-> <<>>, payloads |-> <<>>, stops |-> 0, delivered |-> 0]

\* What the statement-by-statement steps leave alone.
micFrame == <<ctlVars, capture_backend, disposed, call, termuxVars, thrVars,
              dirs, launches>>

\* audio.py:168-169: if self._recording: return.
MicStartGuard ==
  /\ capture_backend = "live"
  /\ lt.caller.pc = "idle"
  /\ IF recording
     THEN /\ lt' = lt
          /\ ev' = Event("caller", "start_noop")
     ELSE /\ clock < MaxStarts
          /\ lt' = [lt EXCEPT !.caller.pc = "start_acquire"]
          /\ ev' = Event("caller", "start_guard")
  /\ UNCHANGED <<micFrame, lock, recVars, streams, clock>>

\* audio.py:171: with self._lock, entered.
MicStartAcquire ==
  /\ lt.caller.pc = "start_acquire"
  /\ lock = "free"
  /\ lock' = "caller"
  /\ lt' = [lt EXCEPT !.caller.pc = "start_chunks"]
  /\ ev' = Event("caller", "start_acquire")
  /\ UNCHANGED <<micFrame, recVars, streams, clock>>

\* audio.py:172: self._chunks = [].
MicStartChunks ==
  /\ lt.caller.pc = "start_chunks"
  /\ chunks' = <<>>
  /\ lt' = [lt EXCEPT !.caller.pc = "start_level", !.appended = <<>>]
  /\ ev' = Event("caller", "start_chunks")
  /\ UNCHANGED <<micFrame, lock, recording, start_time, stream, current_level,
                 streams, clock>>

\* audio.py:173: self._current_level = 0.0.
MicStartLevel ==
  /\ lt.caller.pc = "start_level"
  /\ current_level' = 0
  /\ lt' = [lt EXCEPT !.caller.pc = "start_release"]
  /\ ev' = Event("caller", "start_level")
  /\ UNCHANGED <<micFrame, lock, recording, start_time, stream, chunks,
                 streams, clock>>

\* audio.py:171-173: the with block of start() is left.
MicStartRelease ==
  /\ lt.caller.pc = "start_release"
  /\ lock' = "free"
  /\ lt' = [lt EXCEPT !.caller.pc = "start_flag"]
  /\ ev' = Event("caller", "start_release")
  /\ UNCHANGED <<micFrame, recVars, streams, clock>>

\* audio.py:175-176: self._start_time = time.monotonic(); self._recording = True.
MicStartFlag ==
  /\ lt.caller.pc = "start_flag"
  /\ clock' = clock + 1
  /\ start_time' = clock + 1
  /\ recording' = TRUE
  /\ lt' = [lt EXCEPT !.caller.pc = "start_stream"]
  /\ ev' = Event("caller", "start_flag")
  /\ UNCHANGED <<micFrame, lock, stream, chunks, current_level, streams>>

\* audio.py:178-190: the stream is built and started, or the handler clears
\* the flag and the reference and raises.
MicStartStream(out) ==
  /\ lt.caller.pc = "start_stream"
  /\ CASE out = "ok" ->
            /\ streams' = Append(streams, "active")
            /\ stream' = Len(streams) + 1
            /\ recording' = recording
       [] out = "ctor_raises" ->
            /\ streams' = streams
            /\ stream' = None
            /\ recording' = FALSE
       [] out = "start_raises" ->
            /\ streams' = Append(streams, "open")
            /\ stream' = None
            /\ recording' = FALSE
  /\ lt' = [lt EXCEPT !.caller.pc = "idle"]
  /\ ev' = Event("caller", out)
  /\ UNCHANGED <<micFrame, lock, start_time, chunks, current_level, clock>>

\* audio.py:194-197: if not self._recording: return b""; self._recording = False.
MicStopGuard ==
  /\ capture_backend = "live"
  /\ lt.caller.pc = "idle"
  /\ lt.stops < MaxStops
  /\ IF ~recording
     THEN /\ recording' = recording
          /\ lt' = [lt EXCEPT !.stops = @ + 1, !.payloads = Append(@, <<>>)]
          /\ ev' = Event("caller", "stop_noop")
     ELSE /\ recording' = FALSE
          /\ lt' = [lt EXCEPT !.stops = @ + 1,
                              !.caller.pc = IF stream = None THEN "stop_acquire"
                                            ELSE "stop_stream"]
          /\ ev' = Event("caller", "stop_flag")
  /\ UNCHANGED <<micFrame, lock, start_time, stream, chunks, current_level,
                 streams, clock>>

\* audio.py:200: self._stream.stop().  PortAudio returns from it once the
\* callback of that stream is not running, and calls it no more; or it raises.
MicStopStream(out) ==
  /\ lt.caller.pc = "stop_stream"
  /\ CASE out = "ok" ->
            /\ lt.audio.pc = "idle" \/ lt.audio.chunk.sid # stream
            /\ streams' = [streams EXCEPT ![stream] = "stopped"]
            /\ lt' = [lt EXCEPT !.caller.pc = "stop_close"]
       [] out = "raise" ->
            /\ streams' = streams
            /\ lt' = [lt EXCEPT !.caller.pc = "idle"]
  /\ ev' = Event("caller", IF out = "ok" THEN "stop_stream" ELSE "stop_raises")
  /\ UNCHANGED <<micFrame, lock, recVars, clock>>

\* audio.py:201-202: self._stream.close(); self._stream = None.
MicStopClose(out) ==
  /\ lt.caller.pc = "stop_close"
  /\ CASE out = "ok" ->
            /\ streams' = [streams EXCEPT ![stream] = "closed"]
            /\ stream' = None
            /\ lt' = [lt EXCEPT !.caller.pc = "stop_acquire"]
       [] out = "raise" ->
            /\ UNCHANGED <<stream, streams>>
            /\ lt' = [lt EXCEPT !.caller.pc = "idle"]
  /\ ev' = Event("caller", IF out = "ok" THEN "stop_close" ELSE "stop_raises")
  /\ UNCHANGED <<micFrame, lock, recording, start_time, chunks, current_level,
                 clock>>

\* audio.py:204: with self._lock, entered.
MicStopAcquire ==
  /\ lt.caller.pc = "stop_acquire"
  /\ lock = "free"
  /\ lock' = "caller"
  /\ lt' = [lt EXCEPT !.caller.pc = "stop_check"]
  /\ ev' = Event("caller", "stop_acquire")
  /\ UNCHANGED <<micFrame, recVars, streams, clock>>

\* audio.py:205-207: if not self._chunks: return b""; else
\* audio_data = np.concatenate(self._chunks).
MicStopCheck ==
  /\ lt.caller.pc = "stop_check"
  /\ lt' = [lt EXCEPT !.caller.pc = IF chunks = <<>> THEN "stop_return_empty"
                                    ELSE "stop_clear",
                      !.caller.audio_data = chunks]
  /\ ev' = Event("caller", "stop_check")
  /\ UNCHANGED <<micFrame, lock, recVars, streams, clock>>

\* MicStopClear without the assignment of audio.py:208.
MicStopKeepsChunks ==
  /\ lt.caller.pc = "stop_clear"
  /\ chunks' = chunks
  /\ lt' = [lt EXCEPT !.caller.pc = "stop_release"]
  /\ ev' = Event("caller", "stop_clear")
  /\ UNCHANGED <<micFrame, lock, recording, start_time, stream, current_level,
                 streams, clock>>

\* audio.py:208: self._chunks = [].
MicStopClear ==
  /\ lt.caller.pc = "stop_clear"
  /\ chunks' = <<>>
  /\ lt' = [lt EXCEPT !.caller.pc = "stop_release"]
  /\ ev' = Event("caller", "stop_clear")
  /\ UNCHANGED <<micFrame, lock, recording, start_time, stream, current_level,
                 streams, clock>>

\* audio.py:204-210: the with block is left and the encoding of audio_data is
\* returned; the payload is kept as the chunks it encodes, in order.
MicStopRelease ==
  /\ lt.caller.pc = "stop_release"
  /\ lock' = "free"
  /\ lt' = [lt EXCEPT !.caller.pc = "idle", !.caller.audio_data = <<>>,
                      !.payloads = Append(@, lt.caller.audio_data)]
  /\ ev' = Event("caller", "stop_bytes")
  /\ UNCHANGED <<micFrame, recVars, streams, clock>>

\* audio.py:205-206: return b"" from inside the with block.
MicStopReturnEmpty ==
  /\ lt.caller.pc = "stop_return_empty"
  /\ lock' = "free"
  /\ lt' = [lt EXCEPT !.caller.pc = "idle", !.payloads = Append(@, <<>>)]
  /\ ev' = Event("caller", "stop_empty")
  /\ UNCHANGED <<micFrame, recVars, streams, clock>>

\* audio.py:220: with self._lock, entered.
MicLevelAcquire ==
  /\ capture_backend = "live"
  /\ lt.reader.pc = "idle"
  /\ lock = "free"
  /\ lock' = "reader"
  /\ lt' = [lt EXCEPT !.reader.pc = "level_read"]
  /\ ev' = Event("reader", "level_acquire")
  /\ UNCHANGED <<micFrame, recVars, streams, clock>>

\* audio.py:221: the value of self._current_level is taken.
MicLevelRead ==
  /\ lt.reader.pc = "level_read"
  /\ lt' = [lt EXCEPT !.reader.pc = "level_release", !.reader.level = current_level]
  /\ ev' = Event("reader", "level_read")
  /\ UNCHANGED <<micFrame, lock, recVars, streams, clock>>

\* audio.py:220-221: the with block is left, the value is returned.
MicLevelRelease ==
  /\ lt.reader.pc = "level_release"
  /\ lock' = "free"
  /\ lt' = [lt EXCEPT !.reader.pc = "idle"]
  /\ ev' = Event("reader", "level_release")
  /\ UNCHANGED <<micFrame, recVars, streams, clock>>

\* audio.py:223-242: PortAudio calls the callback of the active stream s with a
\* chunk; the chunk is copied and its level computed.  late records that the
\* flag was already cleared when the chunk was delivered.
MicCallbackEnter(s, rms) ==
  /\ capture_backend = "live"
  /\ lt.audio.pc = "idle"
  /\ s \in 1..Len(streams)
  /\ streams[s] = "active"
  /\ Len(chunks) < MaxChunks
  /\ lt' = [lt EXCEPT !.audio = [pc |-> "cb_acquire",
                                 chunk |-> [sid |-> s, rms |-> rms,
                                            n |-> lt.delivered + 1,
                                            late |-> ~recording],
                                 normalized |-> Normalized(rms)],
                      !.delivered = @ + 1]
  /\ ev' = Event("audio", "cb_enter")
  /\ UNCHANGED <<micFrame, lock, recVars, streams, clock>>

\* MicCallbackAcquire without the with self._lock of audio.py:244: the
\* callback goes on to its two assignments whoever holds the lock.
MicCallbackNoLock ==
  /\ lt.audio.pc = "cb_acquire"
  /\ lock' = lock
  /\ lt' = [lt EXCEPT !.audio.pc = "cb_append"]
  /\ ev' = Event("audio", "cb_acquire")
  /\ UNCHANGED <<micFrame, recVars, streams, clock>>

\* audio.py:244: with self._lock, entered.
MicCallbackAcquire ==
  /\ lt.audio.pc = "cb_acquire"
  /\ lock = "free"
  /\ lock' = "audio"
  /\ lt' = [lt EXCEPT !.audio.pc = "cb_append"]
  /\ ev' = Event("audio", "cb_acquire")
  /\ UNCHANGED <<micFrame, recVars, streams, clock>>

\* audio.py:245: self._chunks.append(chunk).
MicCallbackAppend ==
  /\ lt.audio.pc = "cb_append"
  /\ chunks' = Append(chunks, lt.audio.chunk)
  /\ lt' = [lt EXCEPT !.audio.pc = "cb_level",
                      !.appended = Append(@, lt.audio.chunk)]
  /\ ev' = Event("audio", "cb_append")
  /\ UNCHANGED <<micFrame, lock, recording, start_time, stream, current_level,
                 streams, clock>>

\* audio.py:246: self._current_level = normalized.
MicCallbackLevel ==
  /\ lt.audio.pc = "cb_level"
  /\ current_level' = lt.audio.normalized
  /\ lt' = [lt EXCEPT !.audio.pc = "cb_release"]
  /\ ev' = Event("audio", "cb_level")
  /\ UNCHANGED <<micFrame, lock, recording, start_time, stream, chunks,
                 streams, clock>>

\* audio.py:244-246: the with block is left, the callback returns.
MicCallbackRelease ==
  /\ lt.audio.pc = "cb_release"
  /\ lock' = IF lock = "audio" THEN "free" ELSE lock
  /\ lt' = [lt EXCEPT !.audio = [pc |-> "idle", chunk |-> NoChunk, normalized |-> 0]]
  /\ ev' = Event("audio", "cb_release")
  /\ UNCHANGED <<micFrame, recVars, streams, clock>>

\* ------------------------------------------------------ TermuxMicRecorder

NewDir(launched) == [exists |-> launched, raw |-> "absent", launched |-> launched]

\* shutil.rmtree(target, ignore_errors=True) (audio.py:464-465).
RmTree(ds, target) ==
  IF target = None THEN ds
  ELSE [ds EXCEPT ![target] = [@ EXCEPT !.exists = FALSE, !.raw = "absent"]]

\* TermuxMicRecorder._cleanup_paths (audio.py:461-468).
CleanupPaths(target) ==
  /\ dirs' = RmTree(dirs, IF target # None THEN target ELSE tmp_dir)
  /\ tmp_dir' = None
  /\ raw_path' = None
  /\ wav_path' = None

\* What the recorder tool's start command can do (audio.py:367-368).
TermuxStartOutcomes == {"ok", "launch_fails"}

\* TermuxMicRecorder.start (audio.py:336-380).  The new directory is the next
\* id; a failed launch removes it again before raising (audio.py:369).
TermuxStart(out) ==
  IF recording
  THEN /\ out = "ok"
       /\ UNCHANGED <<recVars, envVars>>
  ELSE /\ clock < MaxStarts
       /\ clock' = clock + 1
       /\ launches' = launches + 1
       /\ CASE out = "ok" ->
                 /\ dirs' = Append(RmTree(dirs, tmp_dir), NewDir(TRUE))
                 /\ tmp_dir' = Len(dirs) + 1
                 /\ raw_path' = Len(dirs) + 1
                 /\ wav_path' = Len(dirs) + 1
                 /\ start_time' = clock + 1
                 /\ recording' = TRUE
            [] out = "launch_fails" ->
                 /\ dirs' = Append(RmTree(dirs, tmp_dir), NewDir(FALSE))
                 /\ tmp_dir' = None
                 /\ raw_path' = None
                 /\ wav_path' = None
                 /\ UNCHANGED <<start_time, recording>>
       /\ UNCHANGED <<liveVars, streams>>

\* The recorder tool writes its output file at some moment, or never.
ToolFlush(d) ==
  /\ d \in 1..Len(dirs)
  /\ dirs[d].exists
  /\ dirs[d].launched
  /\ dirs[d].raw = "absent"
  /\ dirs' = [dirs EXCEPT ![d].raw = "nonempty"]
  /\ ev' = Event("env", "flush")
  /\ UNCHANGED <<ctlVars, capture_backend, disposed, call, lock, lt,
                 recVars, thrVars, streams,
                 launches, clock>>

\* TermuxMicRecorder.stop, audio.py:384-387: the guard and the flag.
TermuxStopEnter(t) ==
  /\ capture_backend = "termux_api"
  /\ thr[t].pc = "enter"
  /\ IF ~recording
     THEN /\ Finish(t, "empty")
          /\ recording' = recording
     ELSE /\ recording' = FALSE
          /\ Goto(t, "quit")
  /\ ev' = Event("thread", "step")
  /\ UNCHANGED <<ctlVars, capture_backend, disposed, call, lock, lt,
                 start_time, liveVars, termuxVars,
                 nthr, envVars>>

\* audio.py:388-399: the tool's quit command returns rc; then the paths are read.
TermuxStopQuit(t, rc) ==
  /\ capture_backend = "termux_api"
  /\ thr[t].pc = "quit"
  /\ IF raw_path = None \/ wav_path = None
     THEN /\ CleanupPaths(None)
          /\ Finish(t, "empty")
     ELSE /\ thr' = [thr EXCEPT ![t] = [pc |-> "poll", res |-> "none",
                                        quit_rc |-> rc, raw |-> raw_path,
                                        wav |-> wav_path, polls |-> 0]]
          /\ UNCHANGED <<termuxVars, dirs>>
  /\ ev' = Event("thread", "step")
  /\ UNCHANGED <<ctlVars, capture_backend, disposed, call, lock, lt,
                 recording, start_time, liveVars,
                 nthr, streams, launches, clock>>

RawReady(d) == dirs[d].exists /\ dirs[d].raw = "nonempty"

\* TermuxStopPoll without the _cleanup_paths() of audio.py:407: when the window
\* is over, stop() returns empty and leaves the directory.
TermuxStopPollNoCleanup(t) ==
  /\ capture_backend = "termux_api"
  /\ thr[t].pc = "poll"
  /\ IF RawReady(thr[t].raw)
     THEN /\ Goto(t, "convert")
          /\ ev' = Event("thread", "step")
     ELSE IF thr[t].polls < PollLimit
          THEN /\ thr' = [thr EXCEPT ![t].polls = @ + 1]
               /\ ev' = Event("thread", "step")
          ELSE /\ Finish(t, "empty")
               /\ ev' = Event("thread", "gave_up")
  /\ UNCHANGED <<termuxVars, dirs>>
  /\ UNCHANGED <<ctlVars, capture_backend, disposed, call, lock, lt,
                 recording, start_time, liveVars,
                 nthr, streams, launches, clock>>

\* audio.py:401-408: up to PollLimit sleeps, each after a failed look at the raw
\* file, then the look of line 406.
TermuxStopPoll(t) ==
  /\ capture_backend = "termux_api"
  /\ thr[t].pc = "poll"
  /\ IF RawReady(thr[t].raw)
     THEN /\ Goto(t, "convert")
          /\ ev' = Event("thread", "step")
          /\ UNCHANGED <<termuxVars, dirs>>
     ELSE IF thr[t].polls < PollLimit
          THEN /\ thr' = [thr EXCEPT ![t].polls = @ + 1]
               /\ ev' = Event("thread", "step")
               /\ UNCHANGED <<termuxVars, dirs>>
          ELSE /\ CleanupPaths(None)
               /\ Finish(t, "empty")
               /\ ev' = Event("thread", "gave_up")
  /\ UNCHANGED <<ctlVars, capture_backend, disposed, call, lock, lt,
                 recording, start_time, liveVars,
                 nthr, streams, launches, clock>>

\* What ffmpeg and the read of its output can give (audio.py:426-439): a non-zero
\* exit, no output file, a WAV file with bytes, an empty WAV file.
ConvertOutcomes == {"rc_fail", "no_wav", "bytes", "empty"}

\* audio.py:410-449: convert, read, clean up, then look at the quit command's rc.
TermuxStopConvert(t, out) ==
  /\ capture_backend = "termux_api"
  /\ thr[t].pc = "convert"
  /\ out \in {"bytes", "empty"} => dirs[thr[t].raw].exists
  /\ CleanupPaths(None)
  /\ CASE out = "rc_fail" -> Finish(t, "raise_convert")
       [] out = "no_wav" -> Finish(t, "raise_nowav")
       [] out = "bytes" -> Finish(t, "bytes")
       [] out = "empty" ->
            IF thr[t].quit_rc # 0 THEN Finish(t, "raise_quit")
            ELSE Finish(t, "empty")
  /\ ev' = Event("thread", "step")
  /\ UNCHANGED <<ctlVars, capture_backend, disposed, call, lock, lt,
                 recording, start_time, liveVars,
                 nthr, streams, launches, clock>>

\* ------------------------------------------------------- the Recorder API

StartOutcomes == IF capture_backend = "live" THEN LiveStartOutcomes ELSE TermuxStartOutcomes

\* recorder.start() of the engine create_recorder built (app.py:137, 186): it
\* returns (out = "ok") or raises.
RecorderStart(out) ==
  IF capture_backend = "live" THEN LiveStart(out) ELSE TermuxStart(out)

\* One step of the thread that runs recorder.stop().
StopStep(t) ==
  \/ LiveStopEnter(t)
  \/ \E out \in {"ok", "raise"} : LiveStopStream(t, out)
  \/ \E out \in {"ok", "raise"} : LiveStopClose(t, out)
  \/ LiveStopDrain(t)
  \/ TermuxStopEnter(t)
  \/ \E rc \in {0, 1} : TermuxStopQuit(t, rc)
  \/ TermuxStopPoll(t)
  \/ \E out \in ConvertOutcomes : TermuxStopConvert(t, out)

\* asyncio.to_thread(self.recorder.stop) (app.py:210): a new thread at stop()'s entry.
SpawnStop == 
  /\ nthr < MaxStops
  /\ nthr' = nthr + 1
  /\ thr' = [thr EXCEPT ![nthr + 1] = [NoThread EXCEPT !.pc = "enter"]]

\* ------------------------------------------------------------------ TntApp

NoWorker == [pc |-> "none", tid |-> 0, res |-> "none", notes |-> <<>>,
             appended |-> 0, tinit |-> FALSE, tcall |-> FALSE]

Sessions == 1..MaxStarts
Threads == 1..MaxStops

\* A finished coroutine is garbage: what it did is kept until the next recording.
Forget(ws) == [n \in DOMAIN ws |-> IF ws[n].pc = "done" THEN NoWorker ELSE ws[n]]


\* StartRecording with app.py:191 moved above the try: the session id is
\* incremented before recorder.start() is called, so also when it raises.
StartRecordingCountsFirst ==
  /\ recording_session_id < MaxStarts
  /\ recording_session_id' = recording_session_id + 1
  /\ \E out \in StartOutcomes :
       /\ RecorderStart(out)
       /\ IF out # "ok"
          THEN /\ ev' = Event("toggle", "mic_error")
               /\ UNCHANGED <<state, recording_timer>>
               /\ workers' = workers
          ELSE /\ state' = "recording"
               /\ recording_timer' = TRUE
               /\ ev' = Event("toggle", "started")
               /\ workers' = Forget(workers)
  /\ UNCHANGED <<transcriber, placeholder, capture_backend, disposed, call, lock, lt,
                 thrVars>>

\* TntApp._start_recording (app.py:183-193).
StartRecording ==
  /\ recording_session_id < MaxStarts
  /\ \E out \in StartOutcomes :
       /\ RecorderStart(out)
       /\ IF out # "ok"
          THEN /\ ev' = Event("toggle", "mic_error")
               /\ UNCHANGED <<state, recording_session_id, recording_timer>>
               /\ workers' = workers
          ELSE /\ recording_session_id' = recording_session_id + 1
               /\ state' = "recording"
               /\ recording_timer' = TRUE
               /\ ev' = Event("toggle", "started")
               /\ workers' = Forget(workers)
  /\ UNCHANGED <<transcriber, placeholder, capture_backend, disposed, call, lock, lt,
                 thrVars>>


\* StopRecording without app.py:196-198: the interval timer is left running.
StopRecordingKeepsTimer ==
  /\ recording_timer' = recording_timer
  /\ state' = "transcribing"
  /\ placeholder' = TRUE
  /\ SpawnStop
  /\ workers' = [workers EXCEPT ![recording_session_id] =
                   [NoWorker EXCEPT !.pc = "stop_wait", !.tid = nthr + 1]]
  /\ ev' = Event("toggle", "stop")
  /\ UNCHANGED <<recording_session_id, transcriber, capture_backend, disposed, call, lock, lt,
                 recVars, envVars>>

\* StopRecording that also advances the session id (to invalidate the session
\* that ends).
StopRecordingBumpsId ==
  /\ recording_session_id < MaxStarts
  /\ recording_timer' = FALSE
  /\ state' = "transcribing"
  /\ placeholder' = TRUE
  /\ SpawnStop
  /\ recording_session_id' = recording_session_id + 1
  /\ workers' = [workers EXCEPT ![recording_session_id + 1] =
                   [NoWorker EXCEPT !.pc = "stop_wait", !.tid = nthr + 1]]
  /\ ev' = Event("toggle", "stop")
  /\ UNCHANGED <<transcriber, capture_backend, disposed, call, lock, lt,
                 recVars, envVars>>

\* TntApp._stop_recording (app.py:195-204) and the worker it launches, up to its
\* first await (app.py:206-210), where recorder.stop() is handed to a thread.
StopRecording ==
  /\ recording_timer' = FALSE
  /\ state' = "transcribing"
  /\ placeholder' = TRUE
  /\ SpawnStop
  /\ workers' = [workers EXCEPT ![recording_session_id] =
                   [NoWorker EXCEPT !.pc = "stop_wait", !.tid = nthr + 1]]
  /\ ev' = Event("toggle", "stop")
  /\ UNCHANGED <<recording_session_id, transcriber, capture_backend, disposed, call, lock, lt,
                 recVars, envVars>>


\* The transcribing case handled like the recording case: a second stop worker.
BusyStopsAgain ==
  /\ recording_timer' = FALSE
  /\ state' = "transcribing"
  /\ placeholder' = TRUE
  /\ SpawnStop
  /\ workers' = workers
  /\ ev' = Event("toggle", "busy")
  /\ UNCHANGED <<recording_session_id, transcriber, capture_backend, disposed, call, lock, lt,
                 recVars, envVars>>

\* app.py:178-181: the notification of the transcribing case.
NotifyBusy ==
  /\ ev' = Event("toggle", "busy")
  /\ UNCHANGED <<ctlVars, capture_backend, disposed, call, lock, lt,
                 recVars, thrVars, envVars>>

\* action_toggle_recording without the transcribing case of app.py:178-181:
\* a key press while transcribing starts a recording, as in idle.
toggle_recording_while_busy ==
  \/ state = "idle" /\ StartRecording
  \/ state = "recording" /\ StopRecording
  \/ state = "transcribing" /\ StartRecording

\* TntApp.action_toggle_recording (app.py:171-181).
action_toggle_recording ==
  \/ state = "idle" /\ StartRecording
  \/ state = "recording" /\ StopRecording
  \/ state = "transcribing" /\ NotifyBusy

\* TntApp._update_recording_info (app.py:163-169), run by the interval timer.
update_recording_info ==
  /\ recording_timer
  /\ ev' = Event("tick", IF recording THEN "shown" ELSE "skipped")
  /\ UNCHANGED <<ctlVars, capture_backend, disposed, call, lock, lt,
                 recVars, thrVars, envVars>>

\* The end of every path of the worker, w being its record so far: the
\* placeholder goes, one notification is shown or (text = 1) tv.append adds a
\* transcript entry, and the state is reset under the session-id check
\* (app.py:217, 223, 230, 252).
Conclude(n, w, note, text) ==
  /\ placeholder' = FALSE
  /\ workers' = [workers EXCEPT ![n] =
        [w EXCEPT !.pc = "done",
                  !.notes = IF note = "none" THEN @ ELSE Append(@, note),
                  !.appended = @ + text]]
  /\ state' = IF n = recording_session_id THEN "idle" ELSE state

\* What QwenTranscriber() can do (transcriber.py:12-45).
InitOutcomes == {"ok", "missing"}


\* StopReturned without the check of app.py:227: an empty result goes on to the
\* transcriber like bytes.
StopReturnedNoEmptyCheck(n) ==
  /\ workers[n].pc = "stop_wait"
  /\ thr[workers[n].tid].pc = "done"
  /\ LET res == thr[workers[n].tid].res
         w == [workers[n] EXCEPT !.res = res]
         wi == [w EXCEPT !.tinit = TRUE]
         wt == [wi EXCEPT !.tcall = TRUE, !.pc = "transcribe"]
     IN
       IF Raised(res)
       THEN /\ Conclude(n, w, "stop_error", 0)
            /\ transcriber' = transcriber
       ELSE \E init \in InitOutcomes :
              IF init = "ok"
              THEN /\ transcriber' = "ready"
                   /\ workers' = [workers EXCEPT ![n] = wt]
                   /\ UNCHANGED <<placeholder, state>>
              ELSE /\ transcriber = "None"
                   /\ transcriber' = transcriber
                   /\ Conclude(n, wi, "missing_asset", 0)
  /\ thr' = [thr EXCEPT ![workers[n].tid].res = "taken"]
  /\ ev' = Event("worker", "stop_returned")
  /\ UNCHANGED <<recording_session_id, recording_timer, capture_backend, disposed, call, lock, lt,
                 recVars, nthr, envVars>>

\* app.py:210, 220-236: recorder.stop() has returned or raised within the bound.
\* With bytes, the transcriber is built if there is none (app.py:142-146), and
\* the worker awaits transcribe_async.
StopReturned(n) ==
  /\ workers[n].pc = "stop_wait"
  /\ thr[workers[n].tid].pc = "done"
  /\ LET res == thr[workers[n].tid].res
         w == [workers[n] EXCEPT !.res = res]
         wi == [w EXCEPT !.tinit = TRUE]
         wt == [wi EXCEPT !.tcall = TRUE, !.pc = "transcribe"]
     IN
       CASE Raised(res) ->
              /\ Conclude(n, w, "stop_error", 0)
              /\ transcriber' = transcriber
         [] res = "empty" ->
              /\ Conclude(n, w, "no_audio", 0)
              /\ transcriber' = transcriber
         [] res = "bytes" ->
              \E init \in InitOutcomes :
                IF transcriber = "ready"
                THEN /\ init = "ok"
                     /\ workers' = [workers EXCEPT ![n] = wt]
                     /\ UNCHANGED <<transcriber, placeholder, state>>
                ELSE IF init = "ok"
                     THEN /\ transcriber' = "ready"
                          /\ workers' = [workers EXCEPT ![n] = wt]
                          /\ UNCHANGED <<placeholder, state>>
                     ELSE /\ transcriber' = transcriber
                          /\ Conclude(n, wi, "missing_asset", 0)
  /\ thr' = [thr EXCEPT ![workers[n].tid].res = "taken"]
  /\ ev' = Event("worker", "stop_returned")
  /\ UNCHANGED <<recording_session_id, recording_timer, capture_backend, disposed, call, lock, lt,
                 recVars, nthr, envVars>>


\* StopTimeout without app.py:217-218: the timeout is reported and the state is
\* left transcribing.
StopTimeoutNoReset(n) ==
  /\ workers[n].pc = "stop_wait"
  /\ thr[workers[n].tid].pc # "done"
  /\ placeholder' = FALSE
  /\ workers' = [workers EXCEPT ![n].pc = "done", ![n].res = "timeout",
                                ![n].notes = Append(@, "timeout")]
  /\ state' = state
  /\ ev' = Event("worker", "timeout")
  /\ UNCHANGED <<recording_session_id, recording_timer, transcriber,
                 capture_backend, disposed, call, lock, lt, recVars, thrVars, envVars>>

\* app.py:211-219: asyncio.wait_for gave up on recorder.stop(), which runs on.
StopTimeout(n) ==
  /\ workers[n].pc = "stop_wait"
  /\ thr[workers[n].tid].pc # "done"
  /\ Conclude(n, [workers[n] EXCEPT !.res = "timeout"], "timeout", 0)
  /\ ev' = Event("worker", "timeout")
  /\ UNCHANGED <<recording_session_id, recording_timer, transcriber,
                 capture_backend, disposed, call, lock, lt, recVars, thrVars, envVars>>

\* What transcribe_async can do (transcriber.py:66-86): text, an empty string, a
\* non-zero exit (RuntimeError), any other exception (spawn, decode).
TranscribeOutcomes == {"text", "empty_text", "nonzero_exit", "other_error"}


\* TranscribeDone without the finally of app.py:251-253: a transcription that
\* raises leaves the state as it is.
TranscribeDoneNoFinally(n, out) ==
  /\ workers[n].pc = "transcribe"
  /\ CASE out = "text" -> Conclude(n, workers[n], "none", 1)
       [] out = "empty_text" -> Conclude(n, workers[n], "no_speech", 0)
       [] out \in {"nonzero_exit", "other_error"} ->
            /\ placeholder' = FALSE
            /\ workers' = [workers EXCEPT ![n].pc = "done",
                                          ![n].notes = Append(@, "error")]
            /\ state' = state
  /\ ev' = Event("worker", out)
  /\ UNCHANGED <<recording_session_id, recording_timer, transcriber,
                 capture_backend, disposed, call, lock, lt, recVars, thrVars, envVars>>

\* TranscribeDone without the else of app.py:240-241: an empty transcription
\* removes the placeholder and reports nothing.
TranscribeDoneSilentOnEmpty(n, out) ==
  /\ workers[n].pc = "transcribe"
  /\ CASE out = "text" -> Conclude(n, workers[n], "none", 1)
       [] out = "empty_text" -> Conclude(n, workers[n], "none", 0)
       [] out = "nonzero_exit" -> Conclude(n, workers[n], "transcription_failed", 0)
       [] out = "other_error" -> Conclude(n, workers[n], "error", 0)
  /\ ev' = Event("worker", out)
  /\ UNCHANGED <<recording_session_id, recording_timer, transcriber,
                 capture_backend, disposed, call, lock, lt, recVars, thrVars, envVars>>

\* app.py:236-253: transcribe_async has returned or raised.
TranscribeDone(n, out) ==
  /\ workers[n].pc = "transcribe"
  /\ CASE out = "text" -> Conclude(n, workers[n], "none", 1)
       [] out = "empty_text" -> Conclude(n, workers[n], "no_speech", 0)
       [] out = "nonzero_exit" -> Conclude(n, workers[n], "transcription_failed", 0)
       [] out = "other_error" -> Conclude(n, workers[n], "error", 0)
  /\ ev' = Event("worker", out)
  /\ UNCHANGED <<recording_session_id, recording_timer, transcriber,
                 capture_backend, disposed, call, lock, lt, recVars, thrVars, envVars>>

\* TntApp._stop_and_transcribe (app.py:206-253), from one await to the next.
stop_and_transcribe(n) ==
  \/ StopReturned(n)
  \/ StopTimeout(n)
  \/ \E out \in TranscribeOutcomes : TranscribeDone(n, out)

\* ------------------------------------------------- backend selection

\* Text is a sequence of one-character strings.
UpperCase == <<"A", "B", "C", "D", "E", "F", "G", "H", "I", "J", "K", "L", "M",
               "N", "O", "P", "Q", "R", "S", "T", "U", "V", "W", "X", "Y", "Z">>
LowerCase == <<"a", "b", "c", "d", "e", "f", "g", "h", "i", "j", "k", "l", "m",
               "n", "o", "p", "q", "r", "s", "t", "u", "v", "w", "x", "y", "z">>
Whitespace == {" ", "\t", "\n", "\r"}

\* str.lower()
lower(s) ==
  [i \in 1..Len(s) |->
     IF \E k \in 1..Len(UpperCase) : UpperCase[k] = s[i]
     THEN LowerCase[CHOOSE k \in 1..Len(UpperCase) : UpperCase[k] = s[i]]
     ELSE s[i]]

\* str.strip(): without the leading and the trailing whitespace.
strip(s) ==
  LET kept == {i \in 1..Len(s) : s[i] \notin Whitespace}
  IN IF kept = {} THEN <<>>
     ELSE LET lo == CHOOSE i \in kept : \A j \in kept : i <= j
              hi == CHOOSE i \in kept : \A j \in kept : i >= j
          IN SubSeq(s, lo, hi)

LiveName == <<"l", "i", "v", "e">>
TermuxName == <<"t", "e", "r", "m", "u", "x", "_", "a", "p", "i">>

\* The backend a name stands for.
BackendOf(name) == IF name = LiveName THEN "live" ELSE "termux_api"

\* os.environ.get("TNT_CAPTURE_BACKEND", "").strip().lower() (audio.py:55, 110).
Requested(environ) ==
  lower(strip(IF environ.override_set THEN environ.TNT_CAPTURE_BACKEND ELSE <<>>))

\* _in_proot (audio.py:120-124).
in_proot(environ) ==
  \E key \in {"PROOT_TMP_DIR", "PROOT_LOADER", "PROOT_VERSION"} : key \in environ.keys


\* resolve_capture_backend without the heuristic of audio.py:115-116: live
\* unless the override names the clip backend.
resolve_capture_backend_no_proot(environ) ==
  IF Requested(environ) = TermuxName THEN "termux_api" ELSE "live"

\* resolve_capture_backend (audio.py:108-117).
resolve_capture_backend(environ) ==
  LET requested == Requested(environ)
  IN IF requested = LiveName THEN "live"
     ELSE IF requested = TermuxName THEN "termux_api"
     ELSE IF in_proot(environ) THEN "termux_api"
     ELSE "live"


\* explicit_backend always false: the override only orders the attempts.
explicit_backend_ignored(environ) == FALSE

\* audio.py:56: explicit_backend = requested in {"live", "termux_api"}.
explicit_backend(environ) == Requested(environ) \in {LiveName, TermuxName}

\* What building an engine gives (audio.py:58-66): the engine, or the
\* RuntimeError of MicRecorder.__init__ (audio.py:142-148) or of
\* TermuxMicRecorder._validate_tools (audio.py:478-485).
BuildOutcomes == [live : {"MicRecorder", "sounddevice failed to load"},
                  termux_api : {"TermuxMicRecorder", "tools not found"}]

Built(backend, builds) == builds[backend] \in {"MicRecorder", "TermuxMicRecorder"}

Line(tag, name, detail) == [tag |-> tag, name |-> name, detail |-> detail]

\* _format_backend_errors (audio.py:97-105), errors holding the backends that
\* failed: the header, one line for each of them, the instruction.
format_backend_errors(errors, builds) ==
  <<Line("header", "", "No usable audio capture backend found.")>>
  \o (IF "live" \in errors
      THEN <<Line("backend", "live", builds["live"])>> ELSE <<>>)
  \o (IF "termux_api" \in errors
      THEN <<Line("backend", "termux_api", builds["termux_api"])>> ELSE <<>>)
  \o <<Line("instruction", "",
            "Set TNT_CAPTURE_BACKEND=live or TNT_CAPTURE_BACKEND=termux_api.")>>

Pending == [kind |-> "pending"]
Returned(attempts, engine, label) ==
  [kind |-> "return", attempts |-> attempts, engine |-> engine, label |-> label]
Raises(attempts, message) ==
  [kind |-> "raise", attempts |-> attempts, message |-> message]

\* create_recorder (audio.py:48-94): the first branch when the resolved backend
\* is the clip backend, the second otherwise.  attempts lists the builds tried.
create_recorder(environ, builds) ==
  LET backend == resolve_capture_backend(environ)
      first == backend
      other == IF backend = "termux_api" THEN "live" ELSE "termux_api"
  IN IF Built(first, builds)
     THEN Returned(<<first>>, builds[first], first)
     ELSE IF explicit_backend(environ)
          THEN Raises(<<first>>, <<Line("original", first, builds[first])>>)
          ELSE IF Built(other, builds)
               THEN Returned(<<first, other>>, builds[other], other)
               ELSE Raises(<<first, other>>,
                           format_backend_errors({first, other}, builds))

\* Values of TNT_CAPTURE_BACKEND: empty, the two names in several cases and
\* with whitespace around them, and names that are not backends.
Overrides == {<<>>,
              <<"l", "i", "v", "e">>,
              <<"L", "I", "V", "E">>,
              <<"L", "i", "v", "e">>,
              <<" ", "l", "i", "v", "e", "\n">>,
              <<"t", "e", "r", "m", "u", "x", "_", "a", "p", "i">>,
              <<"T", "E", "R", "M", "U", "X", "_", "A", "P", "I">>,
              <<"T", "e", "r", "m", "u", "x", "_", "A", "p", "i">>,
              <<"\t", "t", "e", "r", "m", "u", "x", "_", "a", "p", "i", " ">>,
              <<"a", "u", "t", "o">>,
              <<"t", "e", "r", "m", "u", "x">>,
              <<"l", " ", "i", "v", "e">>}

ProotKeySets == {{}, {"PROOT_TMP_DIR"}, {"PROOT_LOADER", "PROOT_VERSION"}}

Environs ==
  [override_set : {TRUE}, TNT_CAPTURE_BACKEND : Overrides, keys : ProotKeySets]
  \cup [override_set : {FALSE}, TNT_CAPTURE_BACKEND : {<<>>}, keys : ProotKeySets]

\* create_recorder() is called (app.py:137) in some environment.
CreateRecorderCall ==
  /\ call.fn = "create_recorder"
  /\ call.ret.kind = "pending"
  /\ call' = [call EXCEPT !.ret = create_recorder(call.args.environ,
                                                  call.args.builds)]
  /\ ev' = Event("call", "create_recorder")
  /\ UNCHANGED <<ctlVars, capture_backend, disposed, lock, lt, recVars, thrVars, envVars>>

\* ---------------------------------------------------------- QwenTranscriber

\* Bytes are one-character strings, "0xFF" being a byte that is not UTF-8.
\* bytes.decode("utf-8"): the text, or a UnicodeDecodeError.
decode(bytes) ==
  IF \E i \in 1..Len(bytes) : bytes[i] = "0xFF"
  THEN [ok |-> FALSE, text |-> <<>>]
  ELSE [ok |-> TRUE, text |-> bytes]

\* bytes.decode("utf-8", errors="replace").
decode_replace(bytes) ==
  [i \in 1..Len(bytes) |-> IF bytes[i] = "0xFF" THEN "U+FFFD" ELSE bytes[i]]

Text(text) == [kind |-> "return", error |-> "", code |-> 0, text |-> text]
ProcessFailure(code, diagnostic) ==
  [kind |-> "raise", error |-> "RuntimeError", code |-> code, text |-> diagnostic]
DecodeError ==
  [kind |-> "raise", error |-> "UnicodeDecodeError", code |-> 0, text |-> <<>>]

\* QwenTranscriber.transcribe (transcriber.py:47-64), from the result of
\* subprocess.run on.
transcribe(proc) ==
  IF proc.returncode # 0
  THEN ProcessFailure(proc.returncode, strip(decode_replace(proc.stderr)))
  ELSE IF decode(proc.stdout).ok
       THEN Text(strip(decode(proc.stdout).text))
       ELSE DecodeError


\* transcribe_async without the .strip() of transcriber.py:86.
transcribe_async_no_strip(proc) ==
  IF proc.returncode # 0
  THEN ProcessFailure(proc.returncode, strip(decode_replace(proc.stderr)))
  ELSE IF decode(proc.stdout).ok
       THEN Text(decode(proc.stdout).text)
       ELSE DecodeError

\* QwenTranscriber.transcribe_async (transcriber.py:66-86), from the result of
\* proc.communicate on.
transcribe_async(proc) ==
  IF proc.returncode # 0
  THEN ProcessFailure(proc.returncode, strip(decode_replace(proc.stderr)))
  ELSE IF decode(proc.stdout).ok
       THEN Text(strip(decode(proc.stdout).text))
       ELSE DecodeError

\* Exit codes: success, failure, killed by a signal.
ReturnCodes == {0, 1, -9}

\* What qwen_asr writes to its output: nothing, whitespace, text, text with
\* whitespace around it and inside it, text cut inside a character.
Stdouts == {<<>>, <<" ", "\n">>, <<"h", "i">>, <<" ", "h", "i", "\n">>,
            <<"h", " ", "i">>, <<"h", "0xFF">>}

\* What it writes to its diagnostic channel.
Stderrs == {<<>>, <<"e", "r", "r", "\n">>, <<"0xFF", "e">>}

Procs == [returncode : ReturnCodes, stdout : Stdouts, stderr : Stderrs]

\* The blocking and the awaitable call, on the same result of the process.
TranscribeCall ==
  /\ call.fn = "transcribe"
  /\ call.ret.kind = "pending"
  /\ call' = [call EXCEPT !.ret = [kind |-> "done",
                                   blocking |-> transcribe(call.args),
                                   awaited |-> transcribe_async(call.args)]]
  /\ ev' = Event("call", "transcribe")
  /\ UNCHANGED <<ctlVars, capture_backend, disposed, lock, lt, recVars, thrVars, envVars>>

\* ------------------------------------------------------------ WAV container

\* Frames encoded in one call (rows of audio_data).
MaxFrames == 6

\* The int16 the callback delivered as sample i of the recording.
Sample(i) == ((i * 12345) % 65536) - 32768

\* audio_data: frames rows of channels int16 samples, row by row.
AudioData(frames, channels) == [i \in 1..(frames * channels) |-> Sample(i)]

\* ndarray.tobytes() of int16 data: two bytes a sample, low byte first, two's
\* complement.
tobytes(audio_data) ==
  [k \in 1..(2 * Len(audio_data)) |->
     LET v == audio_data[(k + 1) \div 2] % 65536
     IN IF k % 2 = 1 THEN v % 256 ELSE v \div 256]

\* What wave.Wave_write stores (the fmt chunk and the data chunk) for the
\* parameters set and the bytes written.
WaveWrite(nchannels, sampwidth, framerate, data) ==
  [wFormatTag |-> 1,
   nChannels |-> nchannels,
   nSamplesPerSec |-> framerate,
   nAvgBytesPerSec |-> nchannels * framerate * sampwidth,
   nBlockAlign |-> nchannels * sampwidth,
   wBitsPerSample |-> sampwidth * 8,
   data |-> data]


\* _encode_wav with setsampwidth(1): the header says 8-bit samples.
encode_wav_8bit(self, audio_data) ==
  WaveWrite(self.channels, 1, self.sample_rate, tobytes(audio_data))

\* MicRecorder._encode_wav (audio.py:248-256).
encode_wav(self, audio_data) ==
  WaveWrite(self.channels, 2, self.sample_rate, tobytes(audio_data))

\* wave.open(..., "rb"): the parameters wave.Wave_read computes from the chunks.
WaveRead(wav) ==
  LET sampwidth == (wav.wBitsPerSample + 7) \div 8
      framesize == wav.nChannels * sampwidth
  IN [nchannels |-> wav.nChannels,
      sampwidth |-> sampwidth,
      framerate |-> wav.nSamplesPerSec,
      nframes |-> Len(wav.data) \div framesize]

SampleRates == {8000, 16000, 44100, 48000}
ChannelCounts == {1, 2}

\* _encode_wav on the frames of a recording, and the container read back.
EncodeWavCall ==
  /\ call.fn = "_encode_wav"
  /\ call.ret.kind = "pending"
  /\ LET wav == encode_wav(call.args.self,
                           AudioData(call.args.frames, call.args.self.channels))
     IN call' = [call EXCEPT !.ret = [kind |-> "done", wav |-> wav,
                                      read |-> WaveRead(wav)]]
  /\ ev' = Event("call", "_encode_wav")
  /\ UNCHANGED <<ctlVars, capture_backend, disposed, lock, lt, recVars, thrVars, envVars>>

\* -------------------------------------------------------------- StatusPanel

\* status.py:13-18, 22, 26 (IDLE_LEVEL in millionths).
WAVEFORM_COLS == 16
WAVEFORM_UPPER_ROWS == 3
WAVEFORM_LOWER_ROWS == 3
WAVEFORM_ROWS == WAVEFORM_UPPER_ROWS + WAVEFORM_LOWER_ROWS
IDLE_LEVEL == 120000
UPPER_SUBCELLS == WAVEFORM_UPPER_ROWS * 8
LOWER_SUBCELLS == WAVEFORM_LOWER_ROWS * 2

\* round(n / d) of Python for n >= 0, d > 0: to the nearest integer, a half to
\* the even one.
round(n, d) ==
  LET q == n \div d
      r == n % d
  IN IF 2 * r < d THEN q
     ELSE IF 2 * r > d THEN q + 1
     ELSE IF q % 2 = 0 THEN q ELSE q + 1

\* baseline + amplitude * abs(math.sin(phase + t)) for amplitude 0.40, baseline
\* 0.15, speed 0.25 (status.py:102, 126-129), in millionths, for _sine_tick 1
\* and 2 and the columns 0..15.
SineTable ==
  <<<<248962, 389743, 494026, 545934, 537565, 470192, 354073, 206886,
      248962, 389743, 494026, 545934, 537565, 470192, 354073, 206886>>,
    <<341770, 461507, 533820, 547700, 501033, 400925, 262616, 192838,
      341770, 461507, 533820, 547700, 501033, 400925, 262616, 192838>>>>

\* StatusPanel._apply_sine_levels (status.py:120-129) as push_level calls it.
apply_sine_levels(sine_tick) == SineTable[sine_tick]

\* StatusPanel.__init__ (status.py:61-69), with the state and the backend set.
NewPanel(st, backend) ==
  [state |-> st, capture_backend |-> backend,
   levels |-> [i \in 1..WAVEFORM_COLS |-> IDLE_LEVEL], sine_tick |-> 0]

\* deque.append with maxlen = WAVEFORM_COLS.
DequeAppend(levels, level) ==
  IF Len(levels) < WAVEFORM_COLS THEN Append(levels, level)
  ELSE Append(Tail(levels), level)

\* StatusPanel.push_level (status.py:98-109): the panel after the call.
push_level(panel, level) ==
  IF panel.capture_backend = "termux_api" /\ panel.state = "recording"
  THEN [panel EXCEPT !.sine_tick = @ + 1,
                     !.levels = apply_sine_levels(panel.sine_tick + 1)]
  ELSE [panel EXCEPT !.levels = DequeAppend(@, level)]


\* The index into the block characters taken modulo their number, not clamped.
FillWrapped(sub, offset, cells) == (sub - offset) % (cells + 1)

\* status.py:178, 186: fill = max(0, min(cells, sub - offset)).
Fill(sub, offset, cells) == Max(0, Min(cells, sub - offset))

\* StatusPanel._render_waveform (status.py:149-192): for every row and column
\* the index of the block character (0 is the blank).
render_waveform(panel) ==
  [row \in 0..(WAVEFORM_ROWS - 1) |->
     [col \in 1..WAVEFORM_COLS |->
        LET level == panel.levels[col]
        IN IF row < WAVEFORM_UPPER_ROWS
           THEN LET upper_sub == round(level * UPPER_SUBCELLS, LevelUnit)
                    row_from_center == WAVEFORM_UPPER_ROWS - 1 - row
                    below == row_from_center * 8
                IN Fill(upper_sub, below, 8)
           ELSE LET lower_sub == round(level * LOWER_SUBCELLS, LevelUnit)
                    row_from_center == row - WAVEFORM_UPPER_ROWS
                    above == row_from_center * 2
                IN Fill(lower_sub, above, 2)]]

\* Filled sub-cells of a column in the upper and in the lower half of a
\* rendered waveform.
UpperMagnitude(text, col) ==
  text[0][col] + text[1][col] + text[2][col]
LowerMagnitude(text, col) ==
  text[3][col] + text[4][col] + text[5][col]

\* Levels pushed: 0, around the first rounding steps of the two halves, exact
\* halves of a sub-cell (0.0625, 0.25, 0.75), IDLE_LEVEL, the -30 dB level of
\* Normalized, and 1.
MeterLevels == {0, 20833, 20834, 62500, 83334, 120000, 250000, 499974,
                750000, 979167, 1000000}

PanelStates == {"idle", "recording", "transcribing"}

\* push_level(a) then push_level(b) on a panel, and the waveform rendered.
PushLevelCall ==
  /\ call.fn = "push_level"
  /\ \/ /\ call.ret.kind = "pending"
        /\ call' = [call EXCEPT !.ret =
                      [kind |-> "first",
                       panel |-> push_level(call.args.panel, call.args.a)]]
     \/ /\ call.ret.kind = "first"
        /\ LET panel == push_level(call.ret.panel, call.args.b)
           IN call' = [call EXCEPT !.ret =
                         [kind |-> "done", panel |-> panel,
                          text |-> render_waveform(panel)]]
  /\ ev' = Event("call", "push_level")
  /\ UNCHANGED <<ctlVars, capture_backend, disposed, lock, lt, recVars, thrVars, envVars>>

\* ---------------------------------------------------------- specifications

\* TntApp.__init__ (app.py:134-140), MicRecorder.__init__ (audio.py:150-160),
\* TermuxMicRecorder.__init__ (audio.py:322-329), TranscriptView.__init__.
AppInit ==
  /\ state = "idle"
  /\ recording_session_id = 0
  /\ recording_timer = FALSE
  /\ transcriber = "None"
  /\ capture_backend \in Backends
  /\ placeholder = FALSE
  /\ workers = [n \in Sessions |-> NoWorker]
  /\ recording = FALSE
  /\ start_time = 0
  /\ stream = None
  /\ chunks = <<>>
  /\ current_level = 0
  /\ tmp_dir = None
  /\ raw_path = None
  /\ wav_path = None
  /\ thr = [t \in Threads |-> NoThread]
  /\ nthr = 0
  /\ streams = <<>>
  /\ dirs = <<>>
  /\ launches = 0
  /\ clock = 0
  /\ disposed = FALSE
  /\ lock = "free"
  /\ lt = LtInit
  /\ ev = Event("init", "none")

Init == AppInit /\ call = NoCall

\* The application: key presses, the tick, the worker, the stop threads, the
\* audio thread and the recorder tool.
Next ==
  \/ action_toggle_recording
  \/ update_recording_info
  \/ \E n \in Sessions : stop_and_transcribe(n)
  \/ \E t \in Threads : StopStep(t)
  \/ \E s \in 1..MaxStarts, rms \in ChunkRms : AudioCallback(s, rms)
  \/ \E d \in 1..MaxStarts : ToolFlush(d)

Spec == Init /\ [][Next]_vars

\* The event loop runs a worker whose await is over: the thread's result is in,
\* the 30 s of wait_for are over, or the transcription process has ended.
\* Nothing makes a stop thread or the recorder tool go on.
FairSpec == Spec /\ WF_vars(\E n \in Sessions : stop_and_transcribe(n))

\* An engine used through the Recorder protocol by one caller (audio.py:28-45):
\* start() and stop() in any order, one call at a time, with the audio thread
\* and the recorder tool running beside it.
NoCallInProgress == \A t \in Threads : thr[t].pc \in {"none", "done"}

CallStart ==
  /\ ~disposed
  /\ NoCallInProgress
  /\ \E out \in StartOutcomes :
       /\ RecorderStart(out)
       /\ ev' = Event("start", out)
  /\ UNCHANGED <<ctlVars, capture_backend, disposed, call, lock, lt, thrVars>>

CallStop ==
  /\ ~disposed
  /\ NoCallInProgress
  /\ SpawnStop
  /\ ev' = Event("stop", "call")
  /\ UNCHANGED <<ctlVars, capture_backend, disposed, call, lock, lt, recVars, envVars>>

\* The owner drops the engine between two calls: the application exits (key q,
\* app.py:129; app.run() returns, app.py:305-307).  Neither engine class
\* defines a finalizer, a close method or a context manager, and TntApp has no
\* exit handler, so no code of the engine runs.
Dispose ==
  /\ ~disposed
  /\ NoCallInProgress
  /\ disposed' = TRUE
  /\ ev' = Event("dispose", "dropped")
  /\ UNCHANGED <<ctlVars, capture_backend, call, lock, lt, recVars, thrVars, envVars>>

EngineNext ==
  \/ CallStart
  \/ CallStop
  \/ Dispose
  \/ \E t \in Threads : StopStep(t)
  \/ \E s \in 1..MaxStarts, rms \in ChunkRms : AudioCallback(s, rms)
  \/ \E d \in 1..MaxStarts : ToolFlush(d)

EngineSpec == Init /\ [][EngineNext]_vars

\* A stop() that is polling goes on: time.sleep(0.05) returns and the looks at
\* the file (Path.exists, Path.stat) return.  Nothing makes the recorder tool,
\* its quit command or the converter go on.
EngineFairSpec == EngineSpec /\ \A t \in Threads : WF_vars(TermuxStopPoll(t))

\* A MicRecorder used by three threads, statement by statement: one caller of
\* start() and stop(), a reader of the level, and PortAudio's thread.
MicInit == Init /\ capture_backend = "live"

MicNext ==
  \/ MicStartGuard
  \/ MicStartAcquire
  \/ MicStartChunks
  \/ MicStartLevel
  \/ MicStartRelease
  \/ MicStartFlag
  \/ \E out \in LiveStartOutcomes : MicStartStream(out)
  \/ MicStopGuard
  \/ \E out \in {"ok", "raise"} : MicStopStream(out)
  \/ \E out \in {"ok", "raise"} : MicStopClose(out)
  \/ MicStopAcquire
  \/ MicStopCheck
  \/ MicStopClear
  \/ MicStopRelease
  \/ MicStopReturnEmpty
  \/ MicLevelAcquire
  \/ MicLevelRead
  \/ MicLevelRelease
  \/ \E s \in 1..MaxStarts, rms \in ChunkRms : MicCallbackEnter(s, rms)
  \/ MicCallbackAcquire
  \/ MicCallbackAppend
  \/ MicCallbackLevel
  \/ MicCallbackRelease

MicSpec == MicInit /\ [][MicNext]_vars

\* create_recorder on its own, in every environment of Environs and with every
\* combination of engines that can and cannot be built.
SelectorInit ==
  /\ AppInit
  /\ call \in [fn : {"create_recorder"},
               args : [environ : Environs, builds : BuildOutcomes],
               ret : {Pending}]

SelectorSpec == SelectorInit /\ [][CreateRecorderCall]_vars

\* The two transcription calls on their own, on every process result of Procs.
TranscriberInit ==
  /\ AppInit
  /\ call \in [fn : {"transcribe"}, args : Procs, ret : {Pending}]

TranscriberSpec == TranscriberInit /\ [][TranscribeCall]_vars

\* _encode_wav on its own: 0..MaxFrames frames at every rate of SampleRates
\* and channel count of ChannelCounts.
EncoderInit ==
  /\ AppInit
  /\ call \in [fn : {"_encode_wav"},
               args : [self : [sample_rate : SampleRates, channels : ChannelCounts],
                       frames : 0..MaxFrames],
               ret : {Pending}]

EncoderSpec == EncoderInit /\ [][EncodeWavCall]_vars

\* The meter on its own: two levels a <= b of MeterLevels pushed to a new panel
\* in every state and with either backend.
MeterInit ==
  /\ AppInit
  /\ call \in {c \in [fn : {"push_level"},
                       args : [panel : {NewPanel(st, b) : st \in PanelStates,
                                                         b \in Backends},
                               a : MeterLevels, b : MeterLevels],
                       ret : {Pending}] : c.args.a <= c.args.b}

MeterSpec == MeterInit /\ [][PushLevelCall]_vars

\* ------------------------------------------------------------------ claims

InFlight(n) == workers[n].pc \in {"stop_wait", "transcribe"}

\* A worker in flight always runs under the current session id: a recording
\* starts only from idle, and the state leaves transcribing only as the last
\* step of the one worker in flight.  The staleness branch of the session-id
\* check (app.py:217, 223, 230, 252) is therefore never taken.
NoStaleWorker == \A n \in Sessions : InFlight(n) => n = recording_session_id

\* C2: after a stop request the state does not stay transcribing: for every
\* outcome of recorder.stop() (bytes, empty, exception, no return within the
\* bound) and of the transcription call (text, empty text, missing asset,
\* non-zero exit, other exception) the state becomes idle, unless a newer
\* session has started.
NeverStuck ==
  \A n \in Sessions :
    (state = "transcribing" /\ recording_session_id = n)
      ~> (state = "idle" \/ recording_session_id > n)

\* A transcription that failed has left the controller idle.
NeverStuckWitness ==
  \E n \in Sessions :
    /\ workers[n].pc = "done"
    /\ workers[n].notes = <<"transcription_failed">>
    /\ state = "idle"

\* C3: when recorder.stop() has not returned within the bound, the controller
\* stops waiting for it; the step that gives up reports the timeout, once, ends
\* the worker and (no newer session having started) sets the state to idle;
\* nothing more is reported for that attempt afterwards, whether stop() returns
\* later or never.
TimeoutReportedOnce ==
  /\ [][\A n \in Sessions :
          (/\ workers[n].pc = "stop_wait"
           /\ thr[workers[n].tid].pc # "done"
           /\ workers'[n].pc # "stop_wait")
            => /\ workers'[n].pc = "done"
               /\ workers'[n].notes = <<"timeout">>
               /\ (n = recording_session_id => state' = "idle")]_vars
  /\ [][\A n \in Sessions :
          (workers[n].pc = "done" /\ workers[n].res = "timeout")
            => workers'[n] \in {workers[n], NoWorker}]_vars
  /\ \A n \in Sessions :
       (workers[n].pc = "stop_wait") ~> (workers[n].pc # "stop_wait")

\* The timeout was reported, the controller is idle, and stop() returned later.
TimeoutWitness ==
  \E n \in Sessions :
    /\ workers[n].res = "timeout"
    /\ workers[n].notes = <<"timeout">>
    /\ state = "idle"
    /\ thr[workers[n].tid].pc = "done"

\* C4: a record/stop request while the state is transcribing only notifies:
\* the state, the session id, the tick timer, the recorder, its threads and
\* the workers are as before, so no worker is launched.
BusyIsNoOp ==
  [][(state = "transcribing" /\ ev'.op = "toggle")
       => /\ ev'.out = "busy"
          /\ UNCHANGED <<state, recording_session_id, recording_timer, workers,
                         recVars, thrVars, envVars, transcriber, placeholder>>]_vars

\* The request was made while a worker was waiting for recorder.stop().
BusyWitness ==
  /\ ev = Event("toggle", "busy")
  /\ state = "transcribing"
  /\ \E n \in Sessions : workers[n].pc = "stop_wait"

\* C5: a record request in idle whose recorder.start() fails (the engine is not
\* recording afterwards) is reported and leaves the state idle, the session id
\* as it was and no tick; one whose start() succeeds increments the session id,
\* enters recording and starts the tick.
StartFailureStaysIdle ==
  [][(state = "idle" /\ ev'.op = "toggle")
       => IF recording'
          THEN /\ recording_session_id' = recording_session_id + 1
               /\ state' = "recording"
               /\ recording_timer'
          ELSE /\ ev'.out = "mic_error"
               /\ recording_session_id' = recording_session_id
               /\ state' = "idle"
               /\ ~recording_timer']_vars

\* A start() failed after an earlier attempt had succeeded.
StartFailureWitness ==
  /\ ev = Event("toggle", "mic_error")
  /\ state = "idle"
  /\ ~recording
  /\ recording_session_id = 1
  /\ ~recording_timer

\* C6: the session id changes only on an idle-to-recording transition, and then
\* by exactly one: starting at 0, it is the number of those transitions, and
\* no stop request, tick, worker, thread or callback step changes it.
SessionIdCountsAttempts ==
  [][IF state = "idle" /\ state' = "recording"
     THEN recording_session_id' = recording_session_id + 1
     ELSE recording_session_id' = recording_session_id]_vars

\* The second recording, after the first attempt's worker has finished.
SessionIdWitness ==
  /\ recording_session_id = 2
  /\ state = "recording"
  /\ ev = Event("toggle", "started")

\* C7: when recorder.stop() has returned an empty result, the worker has ended
\* with the single notification "No audio captured.", without calling
\* _init_transcriber or transcribe_async and without a transcript entry, and
\* the state is idle.
EmptyStopSkipsTranscriber ==
  \A n \in Sessions :
    workers[n].res = "empty"
      => /\ workers[n].pc = "done"
         /\ workers[n].notes = <<"no_audio">>
         /\ ~workers[n].tinit
         /\ ~workers[n].tcall
         /\ workers[n].appended = 0
         /\ state = "idle"

\* stop() returned empty on an engine that was recording: no transcriber yet.
EmptyStopWitness ==
  \E n \in Sessions :
    /\ workers[n].res = "empty"
    /\ workers[n].pc = "done"
    /\ transcriber = "None"
    /\ state = "idle"

\* C8: for both engines, start() on a recording engine returns without an error
\* and leaves the engine and the environment as they were (no stream opened,
\* no directory made, no recorder-tool run, start time and buffer unchanged);
\* stop() on an engine that is not recording returns empty, without an error
\* and without changing the engine or the environment.
StartStopIdempotent ==
  /\ [][(ev'.op = "start" /\ recording)
          => /\ ev'.out = "ok"
             /\ UNCHANGED <<recVars, envVars>>]_vars
  /\ [][\A t \in Threads :
          (thr[t].pc = "enter" /\ thr'[t].pc # "enter" /\ ~recording)
            => /\ thr'[t].pc = "done"
               /\ thr'[t].res = "empty"
               /\ UNCHANGED <<recVars, envVars>>]_vars

\* On the live engine: stop() was called before the only start() (it returned
\* empty), and the step just taken is a start() on the recording engine, which
\* left the buffered chunk alone.
IdempotentWitness ==
  /\ capture_backend = "live"
  /\ nthr = 1
  /\ thr[1].pc = "done"
  /\ thr[1].res = "empty"
  /\ clock = 1
  /\ recording
  /\ chunks # <<>>
  /\ ev = Event("start", "ok")

\* C9: a start() that fails leaves the engine not recording, with no stream
\* reference, and every stream or directory it created closed or removed.
StartFailureLeavesNothing ==
  [][(ev'.op = "start" /\ ev'.out # "ok")
       => /\ ~recording'
          /\ stream' = None
          /\ \A s \in (Len(streams) + 1)..Len(streams') : streams'[s] = "closed"
          /\ \A d \in (Len(dirs) + 1)..Len(dirs') : ~dirs'[d].exists]_vars

\* C10: when MicRecorder.stop() finishes, by a return or by an exception, the
\* engine is not recording, holds no stream, and the stream it held is closed.
StopReleasesStream ==
  [][\A t \in Threads :
       (capture_backend = "live" /\ thr[t].pc # "done" /\ thr'[t].pc = "done")
         => /\ ~recording'
            /\ stream' = None
            /\ (stream # None => streams'[stream] = "closed")]_vars

\* No temporary directory of the clip engine is on disk or referenced by it.
NoTmpDir ==
  /\ tmp_dir = None
  /\ \A d \in 1..Len(dirs) : ~dirs[d].exists

\* Every exit path of stop(), and every failed start(), of an engine used by one
\* caller leaves no temporary directory.
StopRemovesTmpDir ==
  [][(~disposed' /\ ~recording' /\ NoCallInProgress') => NoTmpDir']_vars

\* C11: the clip engine's temporary directory is gone after every exit path of
\* stop() and after the engine has been disposed of: after every step that
\* leaves the engine not recording with no call in progress, or disposed of,
\* no temporary directory is on disk or referenced by the engine.
TmpDirAlwaysRemoved ==
  [][((~recording' /\ NoCallInProgress') \/ disposed') => NoTmpDir']_vars

\* C12: a stop() of the clip engine whose looks at the raw file never find it
\* with a non-zero size ends: it leaves the polling loop after PollLimit sleeps,
\* returns empty bytes without raising, and the temporary directory is removed
\* and no longer referenced by the engine.
PollWindowEmpty ==
  /\ [][\A t \in Threads :
          (thr[t].pc = "poll" /\ thr'[t].pc \notin {"poll", "convert"})
            => /\ thr[t].polls = PollLimit
               /\ thr'[t].pc = "done"
               /\ thr'[t].res = "empty"
               /\ ~dirs'[thr[t].raw].exists
               /\ tmp_dir' = None /\ raw_path' = None /\ wav_path' = None]_vars
  /\ [][\A t \in Threads : thr'[t].polls <= PollLimit]_vars
  /\ \A t \in Threads : (thr[t].pc = "poll") ~> (thr[t].pc # "poll")

\* stop() has just given up on the raw file of the recording that was running.
PollWindowWitness ==
  /\ ev = Event("thread", "gave_up")
  /\ \E t \in Threads : thr[t].pc = "done" /\ thr[t].res = "empty"
  /\ ~recording
  /\ dirs # <<>>
  /\ NoTmpDir

\* C13: a stop() of the clip engine whose quit command exited non-zero and that
\* ends without bytes raises the stop failure (it does not return an empty
\* result), and the temporary directory is removed by then.
QuitFailureSurfaced ==
  [][\A t \in Threads :
       (/\ thr[t].pc \in {"poll", "convert"}
        /\ thr[t].quit_rc # 0
        /\ thr'[t].pc = "done"
        /\ thr'[t].res # "bytes")
         => /\ thr'[t].res = "raise_quit"
            /\ NoTmpDir']_vars

\* The part of C13 the code has: the stop failure is raised only by a stop()
\* whose quit command exited non-zero, and after the directory is removed.
QuitFailureAfterCleanup ==
  [][\A t \in Threads :
       (thr[t].pc # "done" /\ thr'[t].pc = "done" /\ thr'[t].res = "raise_quit")
         => /\ thr[t].quit_rc # 0
            /\ NoTmpDir']_vars

\* C14: for both engines, get_level() is zero whenever the engine is not
\* recording (no call being in progress): before the first start(), after a
\* failed start() and after every stop(), whatever level was last observed.
LevelZeroWhenIdle ==
  (~recording /\ NoCallInProgress) => get_level = 0

\* The part of C14 the code has: the clip engine's level is zero when it is not
\* recording, and the live engine's level is zero until the first chunk.
LevelZeroBeforeFirstChunk ==
  /\ (capture_backend = "termux_api" /\ ~recording) => get_level = 0
  /\ (capture_backend = "live" /\ nthr = 0 /\ ~recording) => get_level = 0

\* C15: the level of either engine is within [0, 1] in every reachable state,
\* for every chunk the audio callback delivers (silence, below the floor, mid
\* scale, full scale), and a tick of the controller, which reads it, leaves it
\* as it was.
LevelInRange ==
  /\ [](current_level \in 0..LevelUnit /\ get_level \in 0..LevelUnit)
  /\ [][ev'.op = "tick"
          => (current_level' = current_level /\ get_level' = get_level)]_vars

\* The tick has just shown the level of a full-scale chunk on the live engine.
LevelInRangeWitness ==
  /\ ev = Event("tick", "shown")
  /\ capture_backend = "live"
  /\ chunks # <<>>
  /\ chunks[Len(chunks)].rms = 32768
  /\ get_level = LevelUnit

\* create_recorder has returned or raised.
Selected == call.fn = "create_recorder" /\ call.ret.kind # "pending"

\* C16: with the override set to one of the two backend names, in any letter
\* case, create_recorder attempts that backend's construction and no other,
\* whatever the proot keys and whether or not the other backend could be
\* built: it returns that backend with its engine, or, the construction
\* failing, raises that construction's own error.
ExplicitOverrideDeterministic ==
  (Selected /\ Requested(call.args.environ) \in {LiveName, TermuxName})
    => LET b == BackendOf(Requested(call.args.environ))
           builds == call.args.builds
       IN /\ call.ret.attempts = <<b>>
          /\ IF Built(b, builds)
             THEN /\ call.ret.kind = "return"
                  /\ call.ret.label = b
                  /\ call.ret.engine = builds[b]
             ELSE /\ call.ret.kind = "raise"
                  /\ call.ret.message = <<Line("original", b, builds[b])>>

\* The override is LIVE inside proot, the live engine cannot be built and the
\* clip engine could: the live engine's error has been raised.
ExplicitOverrideWitness ==
  /\ Selected
  /\ call.args.environ.override_set
  /\ call.args.environ.TNT_CAPTURE_BACKEND = <<"L", "I", "V", "E">>
  /\ call.args.environ.keys # {}
  /\ ~Built("live", call.args.builds)
  /\ Built("termux_api", call.args.builds)
  /\ call.ret.kind = "raise"

\* C17: with the override unset or not a backend name, create_recorder tries
\* the preferred backend first (the clip backend inside proot, else the live
\* one) and the other one only if the first cannot be built; the label it
\* returns is that of the engine it built; when neither can be built it raises
\* one error made of the header, each backend's reason and the instruction on
\* the override.
HeuristicFallback ==
  (Selected /\ Requested(call.args.environ) \notin {LiveName, TermuxName})
    => LET builds == call.args.builds
           preferred == IF call.args.environ.keys # {} THEN "termux_api" ELSE "live"
           other == IF preferred = "live" THEN "termux_api" ELSE "live"
           r == call.ret
       IN /\ r.attempts = IF Built(preferred, builds) THEN <<preferred>>
                          ELSE <<preferred, other>>
          /\ r.kind = "return" <=> (Built(preferred, builds) \/ Built(other, builds))
          /\ r.kind = "return"
               => /\ r.label = r.attempts[Len(r.attempts)]
                  /\ r.engine = IF r.label = "live" THEN "MicRecorder"
                                ELSE "TermuxMicRecorder"
          /\ r.kind = "raise"
               => /\ Len(r.message) = 4
                  /\ r.message[1].tag = "header"
                  /\ {r.message[2], r.message[3]} =
                       {Line("backend", b, builds[b]) : b \in Backends}
                  /\ r.message[4].tag = "instruction"

\* Inside proot with an override that names no backend, neither engine could be
\* built: the clip backend was tried first, then the live one.
HeuristicFallbackWitness ==
  /\ Selected
  /\ call.args.environ.TNT_CAPTURE_BACKEND = <<"a", "u", "t", "o">>
  /\ call.args.environ.keys # {}
  /\ call.ret.kind = "raise"
  /\ call.ret.attempts = <<"termux_api", "live">>

\* C18: transcribe and transcribe_async classify the process's result alike:
\* on the same exit code, output and diagnostic they give the same result; a
\* non-zero exit code makes both raise the process failure with the exit code
\* and the trimmed diagnostic; a zero exit code makes both return the trimmed
\* output text, the empty text included (an output that is not UTF-8 makes
\* both raise the same decoding error).
TranscribeCallsAgree ==
  (call.fn = "transcribe" /\ call.ret.kind = "done")
    => LET proc == call.args
           r == call.ret.blocking
       IN /\ call.ret.awaited = r
          /\ proc.returncode # 0
               => r = ProcessFailure(proc.returncode,
                                     strip(decode_replace(proc.stderr)))
          /\ (proc.returncode = 0 /\ "0xFF" \notin {proc.stdout[i] : i \in 1..Len(proc.stdout)})
               => /\ r.kind = "return"
                  /\ r.text \in {<<>>, <<"h", "i">>, <<"h", " ", "i">>}
                  /\ (proc.stdout \in {<<>>, <<" ", "\n">>} <=> r.text = <<>>)
          /\ (proc.returncode = 0 /\ r.kind = "raise")
               => r.error = "UnicodeDecodeError"

\* The process exited with 0 and wrote only whitespace: both calls have
\* returned the empty text.
TranscribeCallsWitness ==
  /\ call.fn = "transcribe"
  /\ call.ret.kind = "done"
  /\ call.args.returncode = 0
  /\ call.args.stdout = <<" ", "\n">>
  /\ call.ret.blocking = Text(<<>>)
  /\ call.ret.awaited = Text(<<>>)

\* C19: N frames of int16 samples encoded by _encode_wav at sample rate R with C
\* channels and read back from the container give N frames (N * C samples),
\* the rate R, C channels and a sample width of 2 bytes, for N in 0..MaxFrames,
\* R in SampleRates and C in ChannelCounts.
WavRoundTrip ==
  (call.fn = "_encode_wav" /\ call.ret.kind = "done")
    => LET a == call.args
           r == call.ret.read
       IN /\ r.nframes = a.frames
          /\ r.nframes * r.nchannels = a.frames * a.self.channels
          /\ r.framerate = a.self.sample_rate
          /\ r.nchannels = a.self.channels
          /\ r.sampwidth = 2

\* Three stereo frames at 44.1 kHz came back as three frames.
WavRoundTripWitness ==
  /\ call.fn = "_encode_wav"
  /\ call.ret.kind = "done"
  /\ call.args.frames = 3
  /\ call.args.self.channels = 2
  /\ call.args.self.sample_rate = 44100
  /\ Len(call.ret.wav.data) = 12
  /\ call.ret.read.nframes = 3

\* The panel appends the levels pushed to it (it does not animate).
Appends(panel) == ~(panel.capture_backend = "termux_api" /\ panel.state = "recording")

\* C20: of two levels a <= b in [0, 1] pushed to the meter, the column rendered
\* for b has at least as many filled sub-cells as the column rendered for a,
\* in the upper half and in the lower half of the waveform.
MeterMonotone ==
  (call.fn = "push_level" /\ call.ret.kind = "done" /\ Appends(call.args.panel))
    => LET text == call.ret.text
           col_a == WAVEFORM_COLS - 1
           col_b == WAVEFORM_COLS
       IN /\ call.ret.panel.levels[col_a] = call.args.a
          /\ call.ret.panel.levels[col_b] = call.args.b
          /\ UpperMagnitude(text, col_a) <= UpperMagnitude(text, col_b)
          /\ LowerMagnitude(text, col_a) <= LowerMagnitude(text, col_b)
          /\ UpperMagnitude(text, col_b) <= UPPER_SUBCELLS
          /\ LowerMagnitude(text, col_b) <= LOWER_SUBCELLS

\* 0.0625 and then 0.25 were pushed while recording on the live backend: the
\* two columns show 2 and 6 sub-cells above, 0 and 2 below.
MeterMonotoneWitness ==
  /\ call.fn = "push_level"
  /\ call.ret.kind = "done"
  /\ call.args.panel.state = "recording"
  /\ call.args.panel.capture_backend = "live"
  /\ call.args.a = 62500
  /\ call.args.b = 250000
  /\ UpperMagnitude(call.ret.text, WAVEFORM_COLS - 1) = 2
  /\ UpperMagnitude(call.ret.text, WAVEFORM_COLS) = 6
  /\ LowerMagnitude(call.ret.text, WAVEFORM_COLS - 1) = 0
  /\ LowerMagnitude(call.ret.text, WAVEFORM_COLS) = 2

\* ---- C21 -----------------------------------------------------------------
\* The statements of thread th that the lock brackets (audio.py:171-173,
\* 204-208, 220-221, 244-246): th is about to run one of them or to leave.
LockedSection(th) ==
  CASE th = "caller" -> lt.caller.pc \in {"start_chunks", "start_level",
                                          "start_release", "stop_check",
                                          "stop_clear", "stop_release",
                                          "stop_return_empty"}
    [] th = "reader" -> lt.reader.pc \in {"level_read", "level_release"}
    [] th = "audio" -> lt.audio.pc \in {"cb_append", "cb_level", "cb_release"}

\* C21: the chunk buffer and the level of the live engine are touched only by
\* the thread holding the lock.  A thread inside a bracketed section holds the
\* lock, so no two threads are inside one at once: the callback's append and
\* level update never overlap the reset of start(), the drain of stop() or the
\* read of get_level().  And every step that changes the buffer or the level,
\* or reads the level, is a step of the lock's holder alone.
LockGuardsBufferAndLevel ==
  /\ [](\A th \in MicThreads : LockedSection(th) => lock = th)
  /\ [][(chunks' # chunks \/ current_level' # current_level
           \/ lt'.reader.level # lt.reader.level
           \/ ev'.out \in {"start_chunks", "start_level", "stop_check", "stop_clear",
                          "level_read", "cb_append", "cb_level"})
          => /\ lock \in MicThreads
             /\ lock' = lock
             /\ LockedSection(lock)
             /\ ev'.op = lock
             /\ \A th \in MicThreads \ {lock} : lt'[th] = lt[th]]_vars

\* A chunk of a stream that an earlier, failed stop() left running waits for
\* the lock while stop() drains the buffer.
LockGuardsWitness ==
  /\ lt.audio.pc = "cb_acquire"
  /\ lock = "caller"
  /\ lt.caller.pc = "stop_clear"

\* ---- C22 -----------------------------------------------------------------
\* The call of start() or stop() in progress has assigned _recording
\* (audio.py:176, 197).
FlagChanged ==
  lt.caller.pc \in {"start_stream", "stop_stream", "stop_close", "stop_acquire",
                    "stop_check", "stop_clear", "stop_release", "stop_return_empty"}

\* The call in progress has assigned _chunks = [] (audio.py:172, 208).
BufferCleared ==
  lt.caller.pc \in {"start_level", "start_release", "start_flag", "start_stream",
                    "stop_release"}

\* C22: the chunk buffer is cleared atomically with the transition of the
\* recording flag.  While a call of start() or stop() is between its two
\* assignments the caller holds the lock, so that whenever the lock is not the
\* caller's the flag has changed if and only if the buffer has been cleared.
ClearedWithFlag ==
  (lt.caller.pc # "idle" /\ lock # "caller") => (FlagChanged <=> BufferCleared)

\* ---- C23 -----------------------------------------------------------------
\* C23: stop() on a recording live engine that has buffered at least one chunk
\* returns the encoding of all the chunks appended since the reset of the
\* matching start(), each once and in the order of delivery, and leaves the
\* buffer empty; it returns the empty payload only when nothing was appended;
\* and no chunk is part of two payloads, or twice of one.
StopReturnsTheRecording ==
  /\ [][/\ ev'.out = "stop_bytes" =>
             /\ lt.appended # <<>>
             /\ lt'.payloads = Append(lt.payloads, lt.appended)
             /\ chunks' = <<>>
        /\ ev'.out = "stop_empty" => lt.appended = <<>>]_vars
  /\ [](\A i, j \in 1..Len(lt.payloads) :
          \A a \in 1..Len(lt.payloads[i]), b \in 1..Len(lt.payloads[j]) :
            (i # j \/ a # b) => lt.payloads[i][a].n # lt.payloads[j][b].n)

\* Two recordings have been returned, the first of two chunks of different
\* levels, the second of a chunk delivered after the first stop().
StopReturnsWitness ==
  /\ Len(lt.payloads) = 2
  /\ Len(lt.payloads[1]) = 2
  /\ lt.payloads[1][1].rms # lt.payloads[1][2].rms
  /\ Len(lt.payloads[2]) >= 1
  /\ lt.caller.pc = "idle"

\* ---- C24 -----------------------------------------------------------------
\* C24: a chunk that the callback delivers after stop() has cleared the
\* recording flag, while the stream is not yet closed, is not trusted: the
\* callback neither appends it to the buffer nor takes its level, and no
\* payload contains it.
LateChunkNotTrusted ==
  /\ [][lt.audio.chunk.late =>
          /\ ev'.out = "cb_append" => chunks' = chunks
          /\ ev'.out = "cb_level" => current_level' = current_level]_vars
  /\ [](\A i \in 1..Len(lt.payloads) :
          \A a \in 1..Len(lt.payloads[i]) : ~lt.payloads[i][a].late)

\* ---- C25 -----------------------------------------------------------------
\* The input streams that PortAudio is running.
ActiveStreams == {s \in 1..Len(streams) : streams[s] = "active"}

\* C25: the controller and its recorder agree in every reachable state: the
\* recorder is recording whenever the state is "recording" and is not
\* recording whenever the state is "idle", and at most one capture runs.
StateMatchesRecorder ==
  /\ state = "recording" => recording
  /\ state = "idle" => ~recording
  /\ Cardinality(ActiveStreams) <= 1

\* ---- C26 -----------------------------------------------------------------
\* C26: a stop() that is still running while the controller is recording is
\* the stop() of an attempt whose wait timed out (a stop thread is started on
\* leaving "recording", and only the timeout returns the controller to idle
\* before the thread is done).  No step of such a thread touches the new
\* attempt: the recording flag, the engine's stream and its PortAudio state,
\* the buffered chunks, the temporary directory, its paths and what is on disk
\* stay as they are, and the thread does not pick up the new attempt's paths.
LateStopLeavesNewAttempt ==
  [][(state = "recording" /\ state' = "recording" /\ ev'.op = "thread") =>
       /\ UNCHANGED <<recording, stream, chunks, tmp_dir, raw_path, wav_path>>
       /\ stream # None => streams'[stream] = streams[stream]
       /\ tmp_dir # None => dirs'[tmp_dir] = dirs[tmp_dir]
       /\ \A t \in Threads :
            /\ (thr'[t].raw # thr[t].raw /\ raw_path # None) => thr'[t].raw # raw_path
            /\ (thr'[t].wav # thr[t].wav /\ wav_path # None) => thr'[t].wav # wav_path]_vars

\* ---- C27 -----------------------------------------------------------------
\* C27: at most one stop+transcribe worker is in flight, and it belongs to the
\* current session; a worker is launched only by the step from "recording" to
\* "transcribing"; the state leaves "transcribing" only in the last step of
\* the worker in flight, for "idle"; a recording attempt (one that starts or
\* one that fails) begins only in "idle"; and a worker that ends, the moment
\* at which it compares its session id, carries the controller's current id.
OneWorkerOfCurrentSession ==
  /\ [](/\ Cardinality({n \in Sessions : InFlight(n)}) <= 1
        /\ \A n \in Sessions : InFlight(n) => n = recording_session_id)
  /\ [][/\ \A n \in Sessions :
             /\ (~InFlight(n) /\ InFlight(n)') =>
                  /\ state = "recording" /\ state' = "transcribing"
                  /\ n = recording_session_id
             /\ (InFlight(n) /\ workers'[n].pc = "done") =>
                  n = recording_session_id
        /\ (state = "transcribing" /\ state' # "transcribing") =>
             /\ state' = "idle"
             /\ \E n \in Sessions : InFlight(n) /\ workers'[n].pc = "done"
        /\ (ev'.op = "toggle" /\ ev'.out \in {"started", "mic_error"}) =>
             state = "idle"
        /\ recording_session_id' # recording_session_id => state = "idle"]_vars

\* The worker of the second session has ended and made its comparison.
OneWorkerWitness ==
  /\ recording_session_id = 2
  /\ workers[2].pc = "done"
  /\ state = "idle"

\* ---- C28 -----------------------------------------------------------------
\* C28: the interval timer of the elapsed/level tick exists exactly while the
\* state is "recording": it is created by the step from "idle" to
\* "recording", removed by the step from "recording" to "transcribing", and
\* the tick never runs in "idle" or "transcribing", also after failed starts.
TickExactlyWhileRecording ==
  /\ [](recording_timer <=> state = "recording")
  /\ [][/\ (~recording_timer /\ recording_timer') =>
             (state = "idle" /\ state' = "recording")
        /\ (recording_timer /\ ~recording_timer') =>
             (state = "recording" /\ state' = "transcribing")
        /\ ev'.op = "tick" => (state = "recording" /\ state' = "recording")]_vars

\* The tick runs in a recording that was started after a failed start.
TickWitness ==
  /\ ev.op = "tick"
  /\ state = "recording"
  /\ recording_timer
  /\ recording_session_id = 1
  /\ clock = 2

\* ---- C29 -----------------------------------------------------------------
\* The notifications of _stop_and_transcribe (app.py:213-250).
WorkerNotes == {"timeout", "stop_error", "no_audio", "no_speech", "missing_asset",
                "transcription_failed", "error"}

\* What the worker of session n has shown so far: entries and notifications.
Outcomes(n) == workers[n].appended + Len(workers[n].notes)

\* C29: a run of the stop+transcribe worker shows exactly one outcome: nothing
\* while it is in flight, and in its last step either one transcript entry or
\* one notification (timeout, stop error, no audio, no speech, missing asset,
\* transcription failure), never both and never neither; and the placeholder
\* is mounted only in state "transcribing".
OneOutcomePerStop ==
  /\ [](/\ \A n \in Sessions :
             /\ InFlight(n) => Outcomes(n) = 0
             /\ workers[n].pc = "done" =>
                  /\ Outcomes(n) = 1
                  /\ \A i \in 1..Len(workers[n].notes) : workers[n].notes[i] \in WorkerNotes
        /\ state # "transcribing" => ~placeholder)
  /\ [][/\ \A n \in Sessions :
             (~InFlight(n) /\ InFlight(n)') => (ev'.out = "stop" /\ placeholder')
        /\ ev'.out = "stop" =>
             (InFlight(recording_session_id)' /\ ~InFlight(recording_session_id))]_vars

\* One stop request has ended in a transcript entry, after an earlier one.
OneOutcomeWitness ==
  /\ workers[2].pc = "done"
  /\ workers[2].appended = 1
  /\ workers[2].notes = <<>>
  /\ state = "idle"
  /\ ~placeholder

=============================================================================
